---- MODULE Spec2Model ----
(***************************************************************************)
(* Model of the spleen-font PSF2 reader: header parsing and font           *)
(* construction (src/src/psf.rs), glyph lookup through the ASCII fast      *)
(* path, the ring cache (src/src/cache.rs) and the Unicode table scan,     *)
(* and the row / bit iterators (src/src/glyph.rs).                         *)
(*                                                                         *)
(* Bytes are the integers 0..255.  A borrowed slice of the font buffer is  *)
(* a record [off, len]: the 0-based offset of its first byte in the        *)
(* buffer and its length, so two slices are the same memory iff the        *)
(* records are equal.  u32 header fields are integers; the results of u32  *)
(* and usize arithmetic are little-endian sequences of base-256 digits of  *)
(* the width of the type, so that overflow is computed at full width.      *)
(***************************************************************************)
EXTENDS Integers, Sequences, FiniteSets, TLC

VARIABLES
    build,   \* the compilation target: width of usize, overflow checks
    data,    \* the font byte buffer handed to PSF2Font::new (SpecGlyph: the bitmap)
    hdr,     \* outcome of the last PSF2Header::from_bytes(data)
    font,    \* outcome of PSF2Font::new(data); its cache field is `cache`
    cache,   \* PSF2Font.cache: [entries, next]
    last,    \* the last glyph_by_idx / get_glyph_data call and its outcome
    prev,    \* the call before it, when it asked for the same text
    keys,    \* the byte sequences the caller requests in order (table aliases)
    asked,   \* number of leading entries of keys the caller has requested
    inserted,\* keys stored by Cache::insert, oldest first
    itF,     \* a Glyph iterated with next()
    itB,     \* a clone of the same Glyph iterated with next_back()
    pixF,    \* pixels collected from itF's rows (flat_map)
    pixB,    \* pixels collected from itB's rows (rev().flat_map)
    rowsF,   \* number of next() calls that returned a row
    rowsB,   \* number of next_back() calls that returned a row
    doneF,   \* itF.next() has returned None
    doneB,   \* itB.next_back() has returned None
    it,      \* a Glyph iterated from both ends, next() and next_back() interleaved
    events,  \* what the calls on `it` returned, in order
    lenCall, \* outcome of the last it.len() call
    tableRecords \* the records the mapping table was encoded from (SpecScan)

rowVars == <<it, events, lenCall>>
glyphVars == <<itF, itB, pixF, pixB, rowsF, rowsB, doneF, doneB, rowVars>>
vars == <<build, data, hdr, font, cache, last, prev, keys, asked, inserted, glyphVars,
          tableRecords>>

(***************************************************************************)
(* Little-endian base-256 arithmetic at the width of the integer type.     *)
(***************************************************************************)
RECURSIVE ToLimbs(_, _)
\* An integer as n little-endian base-256 digits (zero extension).
ToLimbs(v, n) ==
    IF n = 0 THEN <<>> ELSE <<v % 256>> \o ToLimbs(v \div 256, n - 1)

RECURSIVE ColSum(_, _, _, _)
\* Digit column k of the schoolbook product a * b, before carries.
ColSum(a, b, k, i) ==
    IF i > Len(a) THEN 0
    ELSE (IF k + 1 - i \in 1..Len(b) THEN a[i] * b[k + 1 - i] ELSE 0)
         + ColSum(a, b, k, i + 1)

RECURSIVE Carry(_, _)
\* Carry propagation over digit columns; the last carry is kept as digits.
Carry(cols, c) ==
    IF cols = <<>> THEN (IF c = 0 THEN <<>> ELSE <<c % 256>> \o Carry(<<>>, c \div 256))
    ELSE <<(cols[1] + c) % 256>> \o Carry(Tail(cols), (cols[1] + c) \div 256)

\* The exact product and sum of two digit sequences.
MulLimbs(a, b) == Carry([k \in 1..(Len(a) + Len(b)) |-> ColSum(a, b, k, 1)], 0)
AddLimbs(a, b) ==
    Carry([k \in 1..(IF Len(a) > Len(b) THEN Len(a) ELSE Len(b)) |->
              (IF k <= Len(a) THEN a[k] ELSE 0) + (IF k <= Len(b) THEN b[k] ELSE 0)], 0)

\* Does the exact value x need more than n digits?
Overflows(x, n) == \E k \in (n + 1)..Len(x) : x[k] # 0
\* x reduced modulo 256^n (two's complement wraparound).
Wrap(x, n) == [k \in 1..n |-> IF k <= Len(x) THEN x[k] ELSE 0]

\* A value no buffer length of the model reaches.
Huge == 256 * 256 * 256
\* The value of a digit sequence when below Huge, and Huge otherwise.
Small(x) ==
    IF \E k \in 4..Len(x) : x[k] # 0 THEN Huge
    ELSE (IF Len(x) >= 1 THEN x[1] ELSE 0)
         + 256 * (IF Len(x) >= 2 THEN x[2] ELSE 0)
         + 65536 * (IF Len(x) >= 3 THEN x[3] ELSE 0)

PANIC == [kind |-> "panic"]
NONE == [kind |-> "None"]

\* A checked (debug) or wrapping (release) operation on an n-byte unsigned type.
Arith(exact, n, b) ==
    IF Overflows(exact, n)
    THEN (IF b.overflow_checks THEN PANIC ELSE [kind |-> "val", v |-> Wrap(exact, n)])
    ELSE [kind |-> "val", v |-> Wrap(exact, n)]

U32Bytes == 4

(***************************************************************************)
(* PSF2Header::from_bytes                                                  *)
(***************************************************************************)
PSF2_MAGIC == <<114, 181, 74, 134>>
HEADER_LEN == 32

\* u32::from_le_bytes
le_u32_swapped(chunk) ==
    chunk[4] + 256 * chunk[3] + 65536 * chunk[2] + 16777216 * chunk[1]
le_u32(chunk) ==
    chunk[1] + 256 * chunk[2] + 65536 * chunk[3] + 16777216 * chunk[4]

\* &bytes[a..b] with 0-based a, b
Slice(bytes, a, b) == SubSeq(bytes, a + 1, b)

from_bytes_version_first(bytes) ==
    IF Len(bytes) < HEADER_LEN
    THEN [kind |-> "Err", msg |-> "PSF2 header is too short"]
    ELSE IF le_u32(Slice(bytes, 4, 8)) # 0
    THEN [kind |-> "Err", msg |-> "PSF2 version is not supported"]
    ELSE IF Slice(bytes, 0, 4) # PSF2_MAGIC
    THEN [kind |-> "Err", msg |-> "PSF2 magic number is invalid"]
    ELSE [kind |-> "Ok",
          magic |-> Slice(bytes, 0, 4),
          version |-> le_u32(Slice(bytes, 4, 8)),
          header_size |-> le_u32(Slice(bytes, 8, 12)),
          flags |-> le_u32(Slice(bytes, 12, 16)),
          num_glyphs |-> le_u32(Slice(bytes, 16, 20)),
          bytes_per_glyph |-> le_u32(Slice(bytes, 20, 24)),
          height |-> le_u32(Slice(bytes, 24, 28)),
          width |-> le_u32(Slice(bytes, 28, 32))]

from_bytes(bytes) ==
    IF Len(bytes) < HEADER_LEN
    THEN [kind |-> "Err", msg |-> "PSF2 header is too short"]
    ELSE IF Slice(bytes, 0, 4) # PSF2_MAGIC
    THEN [kind |-> "Err", msg |-> "PSF2 magic number is invalid"]
    ELSE IF le_u32(Slice(bytes, 4, 8)) # 0
    THEN [kind |-> "Err", msg |-> "PSF2 version is not supported"]
    ELSE [kind |-> "Ok",
          magic |-> Slice(bytes, 0, 4),
          version |-> le_u32(Slice(bytes, 4, 8)),
          header_size |-> le_u32(Slice(bytes, 8, 12)),
          flags |-> le_u32(Slice(bytes, 12, 16)),
          num_glyphs |-> le_u32(Slice(bytes, 16, 20)),
          bytes_per_glyph |-> le_u32(Slice(bytes, 20, 24)),
          height |-> le_u32(Slice(bytes, 24, 28)),
          width |-> le_u32(Slice(bytes, 28, 32))]

(***************************************************************************)
(* Cache (src/src/cache.rs)                                                *)
(***************************************************************************)
MAX_KEY_SIZE == 16
CACHE_SIZE == 64

\* [0; MAX_KEY_SIZE]
ZeroKey == [i \in 1..MAX_KEY_SIZE |-> 0]

Cache_new ==
    [entries |-> [s \in 1..CACHE_SIZE |-> [len |-> 0, key |-> ZeroKey, glyph |-> 0]],
     next |-> 0]

\* e.len as usize == key.len() && &e.key[..key.len()] == key
EntryMatches(e, key) ==
    e.len = Len(key) /\ SubSeq(e.key, 1, Len(key)) = key

Cache_get(c, key) ==
    LET hits == {s \in 1..CACHE_SIZE : EntryMatches(c.entries[s], key)}
    IN  IF hits = {} THEN NONE
        ELSE LET s == CHOOSE x \in hits : \A y \in hits : x <= y
             IN  [kind |-> "Some", idx |-> c.entries[s].glyph]

Cache_insert_stale_len(c, key, glyph) ==
    IF Len(key) > MAX_KEY_SIZE THEN c
    ELSE [entries |-> [c.entries EXCEPT ![c.next + 1] =
                          [len |-> @.len,
                           key |-> [i \in 1..MAX_KEY_SIZE |->
                                       IF i <= Len(key) THEN key[i] ELSE @.key[i]],
                           glyph |-> glyph]],
          next |-> (c.next + 1) % CACHE_SIZE]

Cache_insert_early_wrap(c, key, glyph) ==
    IF Len(key) > MAX_KEY_SIZE THEN c
    ELSE [entries |-> [c.entries EXCEPT ![c.next + 1] =
                          [len |-> Len(key),
                           key |-> [i \in 1..MAX_KEY_SIZE |->
                                       IF i <= Len(key) THEN key[i] ELSE @.key[i]],
                           glyph |-> glyph]],
          next |-> (c.next + 1) % (CACHE_SIZE - 1)]

Cache_insert(c, key, glyph) ==
    IF Len(key) > MAX_KEY_SIZE THEN c
    ELSE [entries |-> [c.entries EXCEPT ![c.next + 1] =
                          [len |-> Len(key),
                           key |-> [i \in 1..MAX_KEY_SIZE |->
                                       IF i <= Len(key) THEN key[i] ELSE @.key[i]],
                           glyph |-> glyph]],
          next |-> (c.next + 1) % CACHE_SIZE]

(***************************************************************************)
(* PSF2Font::new                                                           *)
(***************************************************************************)
\* `x as usize` for a u32 x
AsUsize(x, b) == ToLimbs(x, b.usize_bytes)

PSF2Font_new(buf, b) ==
    LET header == from_bytes(buf) IN
    IF header.kind = "Err" THEN header
    ELSE
    LET glyphs_offset == AsUsize(header.header_size, b)
        glyphs_size == Arith(MulLimbs(AsUsize(header.num_glyphs, b),
                                      AsUsize(header.bytes_per_glyph, b)),
                             b.usize_bytes, b)
    IN
    IF glyphs_size.kind = "panic" THEN PANIC
    ELSE
    LET unicode_offset == Arith(AddLimbs(glyphs_offset, glyphs_size.v), b.usize_bytes, b)
    IN
    IF unicode_offset.kind = "panic" THEN PANIC
    ELSE IF Len(buf) < Small(unicode_offset.v)
    THEN [kind |-> "Err", msg |-> "PSF2 data too short"]
    \* &data[glyphs_offset..unicode_offset] with glyphs_offset > unicode_offset
    ELSE IF Small(glyphs_offset) > Small(unicode_offset.v) THEN PANIC
    ELSE [kind |-> "Ok",
          height |-> header.height,
          width |-> header.width,
          header_size |-> header.header_size,
          bytes_per_glyph |-> header.bytes_per_glyph,
          num_glyphs |-> header.num_glyphs,
          glyphs |-> [off |-> Small(glyphs_offset),
                      len |-> Small(unicode_offset.v) - Small(glyphs_offset)],
          unicode_mapping |-> [off |-> Small(unicode_offset.v),
                               len |-> Len(buf) - Small(unicode_offset.v)]]

(***************************************************************************)
(* PSF2Font::glyph_by_idx                                                  *)
(***************************************************************************)
glyph_by_idx(f, idx, b) ==
    IF idx < f.num_glyphs
    THEN
      LET prod == Arith(MulLimbs(ToLimbs(idx, U32Bytes),
                                 ToLimbs(f.bytes_per_glyph, U32Bytes)), U32Bytes, b)
      IN
      IF prod.kind = "panic" THEN PANIC
      ELSE
      LET sum == Arith(AddLimbs(ToLimbs(f.header_size, U32Bytes), prod.v), U32Bytes, b)
      IN
      IF sum.kind = "panic" THEN PANIC
      ELSE
      LET offset == Wrap(sum.v, b.usize_bytes)
          end == Arith(AddLimbs(offset, AsUsize(f.bytes_per_glyph, b)), b.usize_bytes, b)
      IN
      IF end.kind = "panic" THEN PANIC
      \* &self.glyphs[offset..end]: start after end, or end past the slice
      ELSE IF Small(offset) > Small(end.v) \/ Small(end.v) > f.glyphs.len THEN PANIC
      ELSE [kind |-> "Some",
            off |-> f.glyphs.off + Small(offset),
            len |-> Small(end.v) - Small(offset)]
    ELSE NONE

(***************************************************************************)
(* PSF2Font::next_utf8_len and PSF2Font::scan_unicode_table                *)
(***************************************************************************)
START_SEQ == 254
END_REC == 255

next_utf8_len(b) ==
    IF b <= 127 THEN [kind |-> "Some", n |-> 1]
    ELSE IF b >= 194 /\ b <= 223 THEN [kind |-> "Some", n |-> 2]
    ELSE IF b >= 224 /\ b <= 239 THEN [kind |-> "Some", n |-> 3]
    ELSE IF b >= 240 /\ b <= 244 THEN [kind |-> "Some", n |-> 4]
    ELSE NONE

RECURSIVE SkipScalars(_, _)
\* while p < table.len() && !matches!(table[p], START_SEQ | END_REC)
\*     { p += Self::next_utf8_len(table[p])?; }
\* The position reached, or None when a leading byte is malformed.
SkipScalars(table, p) ==
    IF p < Len(table) /\ table[p + 1] \notin {START_SEQ, END_REC}
    THEN LET l == next_utf8_len(table[p + 1])
         IN  IF l.kind = "None" THEN NONE ELSE SkipScalars(table, p + l.n)
    ELSE [kind |-> "Some", n |-> p]

\* The state of the scan between loop iterations: at the head of the outer
\* `while` ("outer"), at the head of the inner `loop` ("inner"), or returned
\* or panicked ("done", with the outcome).
ScanStart == [pc |-> "outer", p |-> 0, glyph_idx |-> 0]
ScanDone(r) == [pc |-> "done", result |-> r]

\* The head of `while p < table.len()`, with the end-of-table test.
ScanOuter(table, sequence, st) ==
    IF ~(st.p < Len(table)) THEN ScanDone(NONE)
    ELSE IF st.p + 2 <= Len(table) /\ Slice(table, st.p, st.p + 2) = <<END_REC, END_REC>>
    THEN ScanDone(NONE)
    ELSE [st EXCEPT !.pc = "inner"]

\* The inner `loop` with the running index also advanced at a 0xFE separator.
ScanInner_count_separator(table, sequence, st) ==
    IF ~(st.p < Len(table)) THEN ScanDone(PANIC)
    ELSE IF table[st.p + 1] = START_SEQ
    THEN [st EXCEPT !.p = st.p + 1, !.glyph_idx = st.glyph_idx + 1]
    ELSE IF table[st.p + 1] = END_REC
    THEN [pc |-> "outer", p |-> st.p + 1, glyph_idx |-> st.glyph_idx + 1]
    ELSE
      LET start == st.p
          first == next_utf8_len(table[st.p + 1])
      IN
      IF first.kind = "None" THEN ScanDone(NONE)
      ELSE
      LET stop == SkipScalars(table, st.p + first.n) IN
      IF stop.kind = "None" THEN ScanDone(NONE)
      ELSE IF stop.n > Len(table) THEN ScanDone(PANIC)
      ELSE IF Slice(table, start, stop.n) = sequence
      THEN ScanDone([kind |-> "Some", idx |-> st.glyph_idx])
      ELSE [st EXCEPT !.p = stop.n]

\* One iteration of the inner `loop`.
ScanInner(table, sequence, st) ==
    \* table[p] with p >= table.len()
    IF ~(st.p < Len(table)) THEN ScanDone(PANIC)
    ELSE IF table[st.p + 1] = START_SEQ THEN [st EXCEPT !.p = st.p + 1]
    ELSE IF table[st.p + 1] = END_REC
    THEN [pc |-> "outer", p |-> st.p + 1, glyph_idx |-> st.glyph_idx + 1]
    ELSE
      LET start == st.p
          first == next_utf8_len(table[st.p + 1])
      IN
      IF first.kind = "None" THEN ScanDone(NONE)
      ELSE
      LET stop == SkipScalars(table, st.p + first.n) IN
      IF stop.kind = "None" THEN ScanDone(NONE)
      \* &table[start..p] with p > table.len()
      ELSE IF stop.n > Len(table) THEN ScanDone(PANIC)
      ELSE IF Slice(table, start, stop.n) = sequence
      THEN ScanDone([kind |-> "Some", idx |-> st.glyph_idx])
      ELSE [st EXCEPT !.p = stop.n]

ScanStep(table, sequence, st) ==
    IF st.pc = "outer" THEN ScanOuter(table, sequence, st)
    ELSE IF st.pc = "inner" THEN ScanInner(table, sequence, st)
    ELSE st

RECURSIVE ScanRun(_, _, _, _)
\* k loop iterations from st (a finished scan stays finished).
ScanRun(table, sequence, st, k) ==
    IF k = 0 THEN st
    ELSE IF k = 1 THEN ScanStep(table, sequence, st)
    ELSE LET half == ScanRun(table, sequence, st, k \div 2)
         IN  IF half.pc = "done" THEN half
             ELSE ScanRun(table, sequence, half, k - (k \div 2))

\* Every inner iteration that does not end the scan advances p, and every
\* outer one is followed by an inner one: 2 * (len + 1) iterations end it.
scan_unicode_table(table, sequence) ==
    ScanRun(table, sequence, ScanStart, 2 * (Len(table) + 1)).result

(***************************************************************************)
(* PSF2Font::get_glyph_data                                                *)
(*                                                                         *)
(* The outcome of one call: the value returned (or a panic), the tier that *)
(* produced it, which of the cache and the mapping table the call read,    *)
(* the outcome of the table scan when it ran, the (key, glyph) handed to   *)
(* Cache::insert when it was called, and the cache after the call.         *)
(***************************************************************************)
NotRun == [kind |-> "not run"]

ASCII_MAX == 127

get_glyph_data_no_fast_path(f, c, buf, text, b) ==
    LET hit == Cache_get(c, text) IN
    IF hit.kind = "Some"
    THEN [result |-> glyph_by_idx(f, hit.idx, b), tier |-> "cache",
          touched |-> {"cache"}, scan |-> NotRun, ins |-> NotRun, cache |-> c]
    ELSE
    LET found == scan_unicode_table(
                    Slice(buf, f.unicode_mapping.off,
                          f.unicode_mapping.off + f.unicode_mapping.len), text)
    IN
    IF found.kind = "Some"
    THEN [result |-> glyph_by_idx(f, found.idx, b), tier |-> "scan",
          touched |-> {"cache", "table"}, scan |-> found,
          ins |-> [kind |-> "insert", key |-> text, glyph |-> found.idx],
          cache |-> Cache_insert(c, text, found.idx)]
    ELSE [result |-> found, tier |-> "scan",
          touched |-> {"cache", "table"}, scan |-> found, ins |-> NotRun, cache |-> c]

get_glyph_data(f, c, buf, text, b) ==
    IF Len(text) = 1 /\ text[1] <= ASCII_MAX
    THEN [result |-> glyph_by_idx(f, text[1], b), tier |-> "ascii",
          touched |-> {}, scan |-> NotRun, ins |-> NotRun, cache |-> c]
    ELSE
    LET hit == Cache_get(c, text) IN
    IF hit.kind = "Some"
    THEN [result |-> glyph_by_idx(f, hit.idx, b), tier |-> "cache",
          touched |-> {"cache"}, scan |-> NotRun, ins |-> NotRun, cache |-> c]
    ELSE
    LET found == scan_unicode_table(
                    Slice(buf, f.unicode_mapping.off,
                          f.unicode_mapping.off + f.unicode_mapping.len), text)
    IN
    IF found.kind = "Some"
    THEN [result |-> glyph_by_idx(f, found.idx, b), tier |-> "scan",
          touched |-> {"cache", "table"}, scan |-> found,
          ins |-> [kind |-> "insert", key |-> text, glyph |-> found.idx],
          cache |-> Cache_insert(c, text, found.idx)]
    ELSE [result |-> found, tier |-> "scan",
          touched |-> {"cache", "table"}, scan |-> found, ins |-> NotRun, cache |-> c]

(***************************************************************************)
(* Compilation targets.  usize is 32 or 64 bits wide; integer overflow     *)
(* panics with overflow checks (debug profile) and wraps without them      *)
(* (release profile).                                                      *)
(***************************************************************************)
Builds == [usize_bytes : {4, 8}, overflow_checks : BOOLEAN]

(***************************************************************************)
(* Font buffers handed to the parser.                                      *)
(***************************************************************************)
MaxBody == 4
MaxIdx == 2

U32(b0, b1, b2, b3) == <<b0, b1, b2, b3>>
\* i bytes following the header; the byte at body position k is k mod 251.
Body(n) == [k \in 1..n |-> k % 251]

HeaderBytes(magic, version, hs, flags, n, bpg, h, w) ==
    magic \o version \o hs \o flags \o n \o bpg \o h \o w

\* Buffers whose header parses, over header_size, num_glyphs, bytes_per_glyph
\* and the number of bytes after the header.
GeometryBuffers ==
    { HeaderBytes(PSF2_MAGIC, U32(0, 0, 0, 0), hs, U32(1, 0, 0, 0), n, bpg,
                  U32(16, 0, 0, 0), U32(8, 0, 0, 0)) \o Body(len) :
        hs \in {U32(0, 0, 0, 0), U32(32, 0, 0, 0), U32(34, 0, 0, 0)},
        n \in {U32(0, 0, 0, 0), U32(1, 0, 0, 0), U32(2, 0, 0, 0), U32(3, 0, 0, 0),
               U32(0, 0, 1, 0), U32(0, 0, 0, 64)},
        bpg \in {U32(0, 0, 0, 0), U32(1, 0, 0, 0), U32(2, 0, 0, 0),
                 U32(0, 0, 1, 0), U32(1, 0, 1, 0)},
        len \in 0..MaxBody }

\* Fonts of the usual layout: a 32-byte header, the glyph table, a mapping table.
UsualBuffers ==
    { HeaderBytes(PSF2_MAGIC, U32(0, 0, 0, 0), U32(32, 0, 0, 0), U32(1, 0, 0, 0),
                  U32(n, 0, 0, 0), U32(bpg, 0, 0, 0), U32(h, 0, 0, 0), U32(8, 0, 0, 0))
      \o Body(n * bpg + extra) :
        n \in {34, 40}, bpg \in {1, 2}, h \in {1, 2}, extra \in {0, 2} }

\* Buffers for the header checks: each magic byte corrupted, version bytes
\* set, every combination; whole and cut to fewer than 32 bytes.
HeaderCheckBuffers ==
    LET whole == { HeaderBytes(magic, version, U32(32, 0, 0, 0), U32(1, 2, 0, 0),
                               U32(2, 1, 0, 0), U32(1, 0, 0, 0), U32(16, 3, 0, 0),
                               U32(8, 0, 5, 0)) \o Body(2) :
                     magic \in {PSF2_MAGIC, <<0, 181, 74, 134>>, <<114, 0, 74, 134>>,
                                <<114, 181, 0, 134>>, <<114, 181, 74, 0>>,
                                <<134, 74, 181, 114>>},
                     version \in {U32(0, 0, 0, 0), U32(1, 0, 0, 0), U32(0, 1, 0, 0),
                                  U32(0, 0, 0, 1)} }
    IN  whole \cup { SubSeq(w, 1, l) : w \in whole, l \in {0, 3, 4, 8, 31} }

FontBuffers == GeometryBuffers \cup UsualBuffers \cup HeaderCheckBuffers

(***************************************************************************)
(* Specification SpecFont: parsing, construction and glyph_by_idx.         *)
(***************************************************************************)
NoCall == [op |-> "none", result |-> NotRun]
NoGlyph == [kind |-> "not run"]

InitFont ==
    /\ build \in Builds
    /\ data \in FontBuffers
    /\ hdr = NotRun
    /\ font = NotRun
    /\ cache = Cache_new
    /\ last = NoCall
    /\ prev = NoCall
    /\ keys = <<>>
    /\ asked = 0
    /\ tableRecords = <<>>
    /\ inserted = <<>>
    /\ itF = NoGlyph /\ itB = NoGlyph
    /\ pixF = <<>> /\ pixB = <<>>
    /\ rowsF = 0 /\ rowsB = 0
    /\ doneF = FALSE /\ doneB = FALSE
    /\ it = NoGlyph /\ events = <<>> /\ lenCall = NotRun

\* PSF2Header::from_bytes(data)
FromBytes ==
    /\ hdr = NotRun
    /\ hdr' = from_bytes(data)
    /\ UNCHANGED <<build, tableRecords, data, font, cache, last, prev, keys, asked, inserted, glyphVars>>

\* PSF2Font::new(data)
New ==
    /\ font = NotRun
    /\ font' = PSF2Font_new(data, build)
    /\ cache' = Cache_new
    /\ UNCHANGED <<build, tableRecords, data, hdr, last, prev, keys, asked, inserted, glyphVars>>

\* The indices asked of a font: the first ones and those around num_glyphs.
IdxInputs(f) ==
    (0..MaxIdx) \cup ({f.num_glyphs - 1, f.num_glyphs, f.num_glyphs + 1} \cap Nat)

\* font.glyph_by_idx(idx); a panic ends the program.
GlyphByIdx(idx) ==
    /\ font.kind = "Ok"
    /\ last.result.kind # "panic"
    /\ last' = [op |-> "glyph_by_idx", idx |-> idx,
                result |-> glyph_by_idx(font, idx, build)]
    /\ UNCHANGED <<build, tableRecords, data, hdr, font, cache, prev, keys, asked, inserted, glyphVars>>

NextFont ==
    \/ FromBytes
    \/ New
    \/ font.kind = "Ok" /\ \E idx \in IdxInputs(font) : GlyphByIdx(idx)

SpecFont == InitFont /\ [][NextFont]_vars

(***************************************************************************)
(* Claims checked under SpecFont.                                          *)
(***************************************************************************)
\* C1: for every accepted font, glyph_by_idx(i) returns a slice of exactly
\* bytes_per_glyph bytes for every i < num_glyphs, without panicking, and None
\* for every i >= num_glyphs.  Stated for 64-bit targets, where construction
\* computes the offsets exactly.
C1_GlyphByIdxTotal ==
    (build.usize_bytes = 8 /\ font.kind = "Ok" /\ last.op = "glyph_by_idx") =>
        IF last.idx < font.num_glyphs
        THEN last.result.kind = "Some" /\ last.result.len = font.bytes_per_glyph
        ELSE last.result = NONE

\* C2: for every accepted font and i < num_glyphs, the slice glyph_by_idx(i)
\* returns is the buffer range
\* [header_size + i*bytes_per_glyph, header_size + (i+1)*bytes_per_glyph).
C2_GlyphIsIthRecord ==
    (build.usize_bytes = 8 /\ font.kind = "Ok" /\ last.op = "glyph_by_idx"
       /\ last.result.kind = "Some") =>
        /\ last.result.off = font.header_size + last.idx * font.bytes_per_glyph
        /\ last.result.len = font.bytes_per_glyph

\* The little-endian u32 at 0-based offset o of the buffer.
LeAt(o) ==
    data[o + 1] + 256 * data[o + 2] + 65536 * data[o + 3] + 16777216 * data[o + 4]

\* C4: from_bytes succeeds iff the buffer has at least 32 bytes, starts with
\* PSF2_MAGIC and holds version 0; otherwise it returns the error of the first
\* failed check in the order length, magic, version; on success the six other
\* fields are the little-endian u32 values at offsets 8, 12, 16, 20, 24, 28.
C4_FromBytes ==
    hdr.kind # "not run" =>
        IF Len(data) < 32
        THEN hdr = [kind |-> "Err", msg |-> "PSF2 header is too short"]
        ELSE IF \E i \in 1..4 : data[i] # PSF2_MAGIC[i]
        THEN hdr = [kind |-> "Err", msg |-> "PSF2 magic number is invalid"]
        ELSE IF LeAt(4) # 0
        THEN hdr = [kind |-> "Err", msg |-> "PSF2 version is not supported"]
        ELSE /\ hdr.kind = "Ok"
             /\ hdr.magic = PSF2_MAGIC
             /\ hdr.version = 0
             /\ hdr.header_size = LeAt(8)
             /\ hdr.flags = LeAt(12)
             /\ hdr.num_glyphs = LeAt(16)
             /\ hdr.bytes_per_glyph = LeAt(20)
             /\ hdr.height = LeAt(24)
             /\ hdr.width = LeAt(28)

\* A buffer with a corrupt magic and a non-zero version was rejected, and a
\* header with multi-byte fields was accepted at another time; this state is
\* the former.
C4_Witness ==
    /\ hdr.kind = "Err"
    /\ Len(data) >= 32
    /\ data[1] # PSF2_MAGIC[1]
    /\ LeAt(4) # 0

\* Is len < hs + n * bpg over the mathematical integers?  (No product larger
\* than len * len is computed.)
MathTooShort(len, hs, n, bpg) ==
    \/ hs > len
    \/ /\ n > 0
       /\ bpg > 0
       /\ (n > len \/ bpg > len \/ hs + n * bpg > len)

\* C5: for every buffer whose header parses, PSF2Font::new fails with the
\* truncated-data error exactly when buffer.len() < header_size + num_glyphs *
\* bytes_per_glyph over the mathematical integers; on success the glyph table
\* is buffer[header_size .. header_size + num_glyphs*bytes_per_glyph], the
\* mapping table is the rest and the cache is empty with its cursor at 0.
C5_TruncatedExactly ==
    (font.kind # "not run" /\ from_bytes(data).kind = "Ok") =>
        LET h == from_bytes(data) IN
        IF MathTooShort(Len(data), h.header_size, h.num_glyphs, h.bytes_per_glyph)
        THEN font = [kind |-> "Err", msg |-> "PSF2 data too short"]
        ELSE /\ font.kind = "Ok"
             /\ font.glyphs = [off |-> h.header_size,
                               len |-> h.num_glyphs * h.bytes_per_glyph]
             /\ font.unicode_mapping =
                    [off |-> h.header_size + h.num_glyphs * h.bytes_per_glyph,
                     len |-> Len(data) - (h.header_size
                                            + h.num_glyphs * h.bytes_per_glyph)]
             /\ cache.next = 0
             /\ \A s \in 1..CACHE_SIZE : cache.entries[s].len = 0

(***************************************************************************)
(* Fonts with a Unicode mapping table, and the caller's requests.          *)
(***************************************************************************)
NumKeys == 66
Probes == 2

RECURSIVE EncodeRecord(_)
\* The aliases of one record separated by START_SEQ, ended by END_REC.
EncodeRecord(aliases) ==
    IF Len(aliases) = 1 THEN aliases[1] \o <<END_REC>>
    ELSE aliases[1] \o <<START_SEQ>> \o EncodeRecord(Tail(aliases))

RECURSIVE EncodeRecords(_)
EncodeRecords(records) ==
    IF records = <<>> THEN <<>>
    ELSE EncodeRecord(records[1]) \o EncodeRecords(Tail(records))

RECURSIVE Flatten(_)
\* The aliases of a sequence of records, in table order.
Flatten(records) ==
    IF records = <<>> THEN <<>> ELSE records[1] \o Flatten(Tail(records))

EndOfTable == <<END_REC, END_REC>>

\* A font buffer: header, glyph table of n * bpg bytes at hs, mapping table.
FontBuffer(hs, n, bpg, table) ==
    HeaderBytes(PSF2_MAGIC, U32(0, 0, 0, 0), U32(hs, 0, 0, 0), U32(1, 0, 0, 0),
                U32(n, 0, 0, 0), U32(bpg, 0, 0, 0), U32(bpg, 0, 0, 0), U32(8, 0, 0, 0))
    \o Body(hs + n * bpg - HEADER_LEN) \o table

EAcute == <<195, 169>>
UUml == <<195, 188>>
UE == <<117, 101>>
SmallRecords == << <<EAcute>>, <<UUml, UE>> >>

\* The r-th two-byte scalar, r counted from 0.
KeyOf(r) == <<196 + (r \div 64), 128 + (r % 64)>>
\* A 17-byte alias: eight two-byte scalars and a letter.
LongKey ==
    KeyOf(64) \o KeyOf(65) \o KeyOf(66) \o KeyOf(67) \o KeyOf(68) \o KeyOf(69)
    \o KeyOf(70) \o KeyOf(71) \o <<90>>
BigRecords == [r \in 1..NumKeys |-> <<KeyOf(r - 1)>>] \o << <<LongKey>> >>

\* Mapping tables: well formed (records, then the end-of-table marker), and
\* cut or malformed ones.  keys lists aliases the table holds.
WellFormedTables ==
    { [table |-> EncodeRecords(SmallRecords) \o EndOfTable, keys |-> Flatten(SmallRecords)],
      [table |-> EncodeRecords(BigRecords) \o EndOfTable, keys |-> Flatten(BigRecords)] }

SmallTables ==
    { [table |-> <<>>, keys |-> <<>>],
      [table |-> EncodeRecords(SmallRecords) \o EndOfTable, keys |-> Flatten(SmallRecords)],
      [table |-> EncodeRecords(SmallRecords), keys |-> Flatten(SmallRecords)],
      [table |-> EAcute, keys |-> <<EAcute>>],
      [table |-> EAcute \o <<START_SEQ>>, keys |-> <<EAcute>>],
      [table |-> <<65, 195>>, keys |-> <<>>],
      [table |-> <<128, END_REC>> \o EAcute \o <<END_REC>> \o EndOfTable,
       keys |-> <<EAcute>>] }

Scenarios ==
    { [data |-> FontBuffer(32, 3, 2, t.table), keys |-> t.keys] : t \in SmallTables }
    \cup
    { [data |-> FontBuffer(g[1], g[2], g[3], EncodeRecords(SmallRecords) \o EndOfTable),
       keys |-> Flatten(SmallRecords)] : g \in {<<0, 40, 1>>, <<32, 40, 1>>} }
    \cup
    { [data |-> FontBuffer(32, 128, 1, EncodeRecords(BigRecords) \o EndOfTable),
       keys |-> Flatten(BigRecords)] }

\* Requests for sequences that are no alias of any table above.
Extras ==
    { <<>>, <<65>>, <<127>>, [i \in 1..17 |-> 97] }

(***************************************************************************)
(* Specification SpecLookup: get_glyph_data on a constructed font.         *)
(***************************************************************************)
InitLookup ==
    /\ build \in Builds
    /\ \E sc \in Scenarios : data = sc.data /\ keys = sc.keys
    /\ hdr = NotRun
    /\ font = PSF2Font_new(data, build)
    /\ cache = Cache_new
    /\ last = NoCall
    /\ prev = NoCall
    /\ asked = 0
    /\ tableRecords = <<>>
    /\ inserted = <<>>
    /\ itF = NoGlyph /\ itB = NoGlyph
    /\ pixF = <<>> /\ pixB = <<>>
    /\ rowsF = 0 /\ rowsB = 0
    /\ doneF = FALSE /\ doneB = FALSE
    /\ it = NoGlyph /\ events = <<>> /\ lenCall = NotRun

\* What the caller may request next: one of the first Probes aliases, the
\* next alias not requested so far, the previous request again, or a
\* sequence outside the table.
Queries ==
    {keys[i] : i \in 1..(IF Len(keys) < Probes THEN Len(keys) ELSE Probes)}
    \cup (IF asked < Len(keys) THEN {keys[asked + 1]} ELSE {})
    \cup (IF last.op = "get_glyph_data" THEN {last.text} ELSE {})
    \cup Extras

\* font.get_glyph_data(text); a panic ends the program.
GetGlyphData(text) ==
    /\ font.kind = "Ok"
    /\ last.result.kind # "panic"
    /\ \E r \in {get_glyph_data(font, cache, data, text, build)} :
       /\ cache' = r.cache
       /\ last' = [op |-> "get_glyph_data", text |-> text, result |-> r.result,
                   tier |-> r.tier, touched |-> r.touched, scan |-> r.scan,
                   ins |-> r.ins]
       /\ inserted' = IF r.ins.kind = "insert" /\ Len(r.ins.key) <= MAX_KEY_SIZE
                      THEN Append(inserted, [key |-> r.ins.key, glyph |-> r.ins.glyph])
                      ELSE inserted
    /\ prev' = IF last.op = "get_glyph_data" /\ last.text = text
               THEN [op |-> last.op, text |-> last.text, result |-> last.result,
                     tier |-> last.tier]
               ELSE NoCall
    /\ asked' = IF asked < Len(keys) /\ text = keys[asked + 1] THEN asked + 1 ELSE asked
    /\ UNCHANGED <<build, tableRecords, data, hdr, font, keys, glyphVars>>

NextLookup == \E text \in Queries : GetGlyphData(text)

SpecLookup == InitLookup /\ [][NextLookup]_vars

(***************************************************************************)
(* Claims checked under SpecLookup.                                        *)
(***************************************************************************)
IsAscii(text) == Len(text) = 1 /\ text[1] <= 127

\* C3: whatever bytes the mapping region holds, and for every query, the table
\* scan of get_glyph_data never reads at or past the end of the mapping table
\* and never aborts.
C3_ScanNeverAborts ==
    last.op = "get_glyph_data" => last.scan.kind # "panic"

Repeated ==
    /\ prev.op = "get_glyph_data"
    /\ last.op = "get_glyph_data"
    /\ prev.text = last.text
    /\ ~IsAscii(last.text)
    /\ prev.result.kind = "Some"

\* C7 as claimed: two successive get_glyph_data calls with the same non-ASCII
\* byte sequence, whatever its length, return the same slice, and the second
\* is served by the cache tier rather than by a second table scan.
C7_Original ==
    Repeated => (last.result = prev.result /\ last.tier = "cache")

\* C7 amended: two successive get_glyph_data calls with the same non-ASCII
\* byte sequence of at most MAX_KEY_SIZE (16) bytes, the first of which returns
\* a glyph, return the same slice and the second is served by the cache tier;
\* for a longer sequence the second call returns the same slice through a
\* second table scan.
C7_CacheIdempotent ==
    Repeated =>
        /\ last.result = prev.result
        /\ Len(last.text) <= MAX_KEY_SIZE => last.tier = "cache"
        /\ Len(last.text) > MAX_KEY_SIZE => last.tier = "scan"

\* A key found by the table scan was requested again and served by the cache.
C7_Witness ==
    /\ Repeated
    /\ prev.tier = "scan"
    /\ last.tier = "cache"
    /\ last.result = prev.result

Min(a, b) == IF a < b THEN a ELSE b

\* The number of the latest insertion that wrote slot s (1-based), 0 if none.
LatestAt(s) ==
    IF Len(inserted) < s THEN 0
    ELSE s + CACHE_SIZE * ((Len(inserted) - s) \div CACHE_SIZE)

\* The keys of the latest Min(n, CACHE_SIZE) insertions.
RecentKeys ==
    {inserted[j].key : j \in (Len(inserted) - Min(Len(inserted), CACHE_SIZE) + 1)..Len(inserted)}

\* The keys held by the slots that an insertion has written.
HeldKeys ==
    {SubSeq(cache.entries[s].key, 1, cache.entries[s].len) :
        s \in 1..Min(Len(inserted), CACHE_SIZE)}

\* C8: eviction is insertion-order round-robin over 64 slots: the cache holds
\* exactly the most recent min(k, 64) of the k distinct keys inserted so far,
\* slot by slot in insertion order; Cache::get hits exactly those keys, so after
\* 65 distinct keys the 1st misses and the other 64 hit; a later
\* get_glyph_data of an evicted key finds the same glyph through the table
\* scan and inserts it again.
C8_RoundRobin ==
    /\ cache.next = Len(inserted) % CACHE_SIZE
    /\ \A s \in 1..CACHE_SIZE :
          IF LatestAt(s) = 0
          THEN cache.entries[s].len = 0
          ELSE /\ cache.entries[s].len = Len(inserted[LatestAt(s)].key)
               /\ SubSeq(cache.entries[s].key, 1, cache.entries[s].len)
                     = inserted[LatestAt(s)].key
               /\ cache.entries[s].glyph = inserted[LatestAt(s)].glyph
    /\ HeldKeys = RecentKeys
    /\ Cardinality(HeldKeys)
          = Min(Cardinality({inserted[i].key : i \in 1..Len(inserted)}), CACHE_SIZE)
    /\ (last.op = "get_glyph_data" /\ last.ins.kind = "insert") =>
          /\ \A i \in 1..Len(inserted) :
                (Cache_get(cache, inserted[i].key).kind = "Some")
                    <=> (inserted[i].key \in RecentKeys)
          /\ Len(last.text) <= MAX_KEY_SIZE =>
                /\ inserted[Len(inserted)] = [key |-> last.text, glyph |-> last.ins.glyph]
                /\ \A i \in 1..Len(inserted) :
                      inserted[i].key = last.text => inserted[i].glyph = last.ins.glyph

\* 65 or more keys were inserted, the 1st was evicted, requested again, found
\* by the table scan and inserted again.
C8_Witness ==
    /\ Len(inserted) > CACHE_SIZE + 1
    /\ last.op = "get_glyph_data"
    /\ last.text = keys[1]
    /\ last.tier = "scan"
    /\ last.result.kind = "Some"
    /\ inserted[1].key = keys[1]
    /\ inserted[Len(inserted)] = inserted[1]

\* The mapping table of the font.
TableOf ==
    Slice(data, font.unicode_mapping.off,
          font.unicode_mapping.off + font.unicode_mapping.len)

\* C9: after any sequence of earlier calls, a query that is not a single byte
\* <= 0x7F and is not an alias sequence of the mapping table returns None; this
\* covers the empty sequence and sequences longer than 16 bytes.  Stated for
\* well-formed tables, all of whose aliases are listed in keys, and for calls
\* that glyph_by_idx does not abort.
C9_AbsentIsNone ==
    (/\ last.op = "get_glyph_data"
     /\ last.result.kind # "panic"
     /\ \E t \in WellFormedTables : t.table = TableOf
     /\ ~IsAscii(last.text)
     /\ \A i \in 1..Len(keys) : keys[i] # last.text)
        => last.result = NONE

(***************************************************************************)
(* Glyph and GlyphRow iterators (src/src/glyph.rs).  A Glyph is the slice  *)
(* [off, len] of the bitmap it still has to yield, and the width; a        *)
(* GlyphRow is the slice of one row, the width and the bit cursor.         *)
(***************************************************************************)
Glyph_new(off, len, width) == [off |-> off, len |-> len, width |-> width]
GlyphRow_new(off, len, width) == [off |-> off, len |-> len, bit_idx |-> 0, width |-> width]

\* (self.width + 7) >> 3
BytesPerRow(width) == (width + 7) \div 8

\* Glyph::next: the item returned and the iterator afterwards.
Glyph_next(g) ==
    IF g.len < BytesPerRow(g.width)
    THEN [item |-> NONE, g |-> g]
    ELSE [item |-> [kind |-> "Some",
                    row |-> GlyphRow_new(g.off, BytesPerRow(g.width), g.width)],
          g |-> [g EXCEPT !.off = g.off + BytesPerRow(g.width),
                          !.len = g.len - BytesPerRow(g.width)]]

\* Glyph::next_back
Glyph_next_back(g) ==
    IF g.len < BytesPerRow(g.width)
    THEN [item |-> NONE, g |-> g]
    ELSE [item |-> [kind |-> "Some",
                    row |-> GlyphRow_new(g.off + (g.len - BytesPerRow(g.width)),
                                         BytesPerRow(g.width), g.width)],
          g |-> [g EXCEPT !.len = g.len - BytesPerRow(g.width)]]

\* 0b10000000 >> (bit_idx & 7)
Mask(bit_idx) == 2 ^ (7 - (bit_idx % 8))

\* GlyphRow::next over the bitmap: the item returned and the row afterwards.
GlyphRow_next(bitmap, r) ==
    IF r.bit_idx >= r.width
    THEN [item |-> NONE, r |-> r]
    ELSE [item |-> [kind |-> "Some",
                    bit |-> (bitmap[r.off + (r.bit_idx \div 8) + 1]
                                \div Mask(r.bit_idx)) % 2 = 1],
          r |-> [r EXCEPT !.bit_idx = r.bit_idx + 1]]

RECURSIVE RowBits(_, _)
\* The pixels a row yields until GlyphRow::next returns None.
RowBits(bitmap, r) ==
    IF GlyphRow_next(bitmap, r).item.kind = "None" THEN <<>>
    ELSE <<GlyphRow_next(bitmap, r).item.bit>> \o RowBits(bitmap, GlyphRow_next(bitmap, r).r)

(***************************************************************************)
(* Specification SpecGlyph: a glyph and a clone of it, one read forward    *)
(* with flat_map, the other backward with rev().flat_map.                  *)
(***************************************************************************)
MaxGlyphBytes == 3
MaxWidth == 9
MaxRows == 4

PixelBytes == {0, 128, 165}

RECURSIVE SeqsUpTo(_, _)
\* The sequences over S of length at most n.
SeqsUpTo(S, n) ==
    IF n = 0 THEN {<<>>}
    ELSE SeqsUpTo(S, n - 1) \cup {Append(q, x) : q \in SeqsUpTo(S, n - 1), x \in S}

InitGlyph ==
    /\ build \in {b \in Builds : b.usize_bytes = 8 /\ b.overflow_checks}
    /\ data \in SeqsUpTo(PixelBytes, MaxGlyphBytes)
    /\ hdr = NotRun
    /\ font = NotRun
    /\ cache = Cache_new
    /\ last = NoCall
    /\ prev = NoCall
    /\ keys = <<>>
    /\ asked = 0
    /\ tableRecords = <<>>
    /\ inserted = <<>>
    /\ \E width \in 0..MaxWidth :
          /\ itF = Glyph_new(0, Len(data), width)
          /\ itB = Glyph_new(0, Len(data), width)
    /\ pixF = <<>> /\ pixB = <<>>
    /\ rowsF = 0 /\ rowsB = 0
    /\ doneF = FALSE /\ doneB = FALSE
    /\ it = NoGlyph /\ events = <<>> /\ lenCall = NotRun

\* One step of glyph.clone().flat_map(|r| r): the next row and all its pixels.
ForwardRow ==
    /\ ~doneF
    /\ rowsF < MaxRows
    /\ \E n \in {Glyph_next(itF)} :
          IF n.item.kind = "None"
          THEN doneF' = TRUE /\ UNCHANGED <<itF, pixF, rowsF>>
          ELSE /\ itF' = n.g
               /\ pixF' = pixF \o RowBits(data, n.item.row)
               /\ rowsF' = rowsF + 1
               /\ UNCHANGED doneF
    /\ UNCHANGED <<build, tableRecords, data, hdr, font, cache, last, prev, keys, asked, inserted,
                   itB, pixB, rowsB, doneB, rowVars>>

\* One step of glyph.rev().flat_map(|r| r).
BackwardRow ==
    /\ ~doneB
    /\ rowsB < MaxRows
    /\ \E n \in {Glyph_next_back(itB)} :
          IF n.item.kind = "None"
          THEN doneB' = TRUE /\ UNCHANGED <<itB, pixB, rowsB>>
          ELSE /\ itB' = n.g
               /\ pixB' = pixB \o RowBits(data, n.item.row)
               /\ rowsB' = rowsB + 1
               /\ UNCHANGED doneB
    /\ UNCHANGED <<build, tableRecords, data, hdr, font, cache, last, prev, keys, asked, inserted,
                   itF, pixF, rowsF, doneF, rowVars>>

NextGlyph == ForwardRow \/ BackwardRow

SpecGlyph == InitGlyph /\ [][NextGlyph]_vars

Reverse(q) == [i \in 1..Len(q) |-> q[Len(q) + 1 - i]]

\* C10: for any glyph, the flattened pixels of forward row iteration with
\* forward bit iteration, once reversed, equal the flattened pixels of
\* backward row iteration with unreversed bit iteration inside each row.
C10_IterationSymmetry ==
    (doneF /\ doneB) => Reverse(pixF) = pixB

(***************************************************************************)
(* Specification SpecRows: one Glyph read from both ends, with len()       *)
(* asked at any point.                                                     *)
(***************************************************************************)
\* ExactSizeIterator::len of Glyph: the division aborts when the divisor is 0.
Glyph_len(g) ==
    IF BytesPerRow(g.width) = 0
    THEN PANIC
    ELSE [kind |-> "Ok", n |-> g.len \div BytesPerRow(g.width)]

MaxNones == 2

InitRows ==
    /\ build \in {b \in Builds : b.usize_bytes = 8 /\ b.overflow_checks}
    /\ data \in SeqsUpTo(PixelBytes, MaxGlyphBytes)
    /\ hdr = NotRun
    /\ font = NotRun
    /\ cache = Cache_new
    /\ last = NoCall
    /\ prev = NoCall
    /\ keys = <<>>
    /\ asked = 0
    /\ tableRecords = <<>>
    /\ inserted = <<>>
    /\ itF = NoGlyph /\ itB = NoGlyph
    /\ pixF = <<>> /\ pixB = <<>>
    /\ rowsF = 0 /\ rowsB = 0
    /\ doneF = FALSE /\ doneB = FALSE
    /\ \E width \in 0..MaxWidth : it = Glyph_new(0, Len(data), width)
    /\ events = <<>>
    /\ lenCall = NotRun

\* The rows yielded so far.
RowsYielded == SelectSeq(events, LAMBDA e : e.kind = "Some")
NonesReturned == Len(SelectSeq(events, LAMBDA e : e.kind = "None"))

\* The caller goes on while the program has not aborted; the history is capped.
MayCall ==
    /\ lenCall.kind # "panic"
    /\ Len(RowsYielded) < MaxRows
    /\ NonesReturned < MaxNones

\* it.next()
RowsNext ==
    /\ MayCall
    /\ \E n \in {Glyph_next(it)} :
          /\ it' = n.g
          /\ events' = Append(events, n.item)
    /\ UNCHANGED <<build, tableRecords, data, hdr, font, cache, last, prev, keys, asked, inserted,
                   itF, itB, pixF, pixB, rowsF, rowsB, doneF, doneB, lenCall>>

\* it.next_back()
RowsNextBack ==
    /\ MayCall
    /\ \E n \in {Glyph_next_back(it)} :
          /\ it' = n.g
          /\ events' = Append(events, n.item)
    /\ UNCHANGED <<build, tableRecords, data, hdr, font, cache, last, prev, keys, asked, inserted,
                   itF, itB, pixF, pixB, rowsF, rowsB, doneF, doneB, lenCall>>

\* it.len(): takes &self, so the iterator is left as it is.
RowsLen ==
    /\ MayCall
    /\ \E l \in {Glyph_len(it)} :
          lenCall' = IF l.kind = "panic" THEN l
                     ELSE [kind |-> "Ok", n |-> l.n, after |-> Len(RowsYielded)]
    /\ UNCHANGED <<build, tableRecords, data, hdr, font, cache, last, prev, keys, asked, inserted,
                   itF, itB, pixF, pixB, rowsF, rowsB, doneF, doneB, it, events>>

NextRows == RowsNext \/ RowsNextBack \/ RowsLen

SpecRows == InitRows /\ [][NextRows]_vars

\* The buffer offsets of the bytes of a row.
BytesOf(r) == {r.off + k : k \in 0..(r.len - 1)}

\* C11: row iteration over a Glyph is finite for every data slice and every
\* width, width 0 and a data length that is not a multiple of ceil(width/8)
\* included: under any interleaving of next and next_back it yields exactly
\* len() = data.len() / ceil(width/8) rows of ceil(width/8) bytes each, no
\* data byte belonging to two rows, then None on every later call; len() is
\* computed without panicking and without consuming the sequence.
C11_RowsFiniteExact ==
    (events # <<>> \/ lenCall.kind # "not run") =>
        /\ lenCall.kind # "panic"
        /\ Glyph_len(Glyph_new(0, Len(data), it.width)).kind = "Ok"
        /\ \E total \in {Glyph_len(Glyph_new(0, Len(data), it.width))} :
              total.kind = "Ok" =>
                 /\ total.n = Len(data) \div BytesPerRow(it.width)
                 /\ Len(RowsYielded) <= total.n
                 /\ NonesReturned > 0 => Len(RowsYielded) = total.n
                 /\ lenCall.kind = "Ok" => lenCall.n + lenCall.after = total.n
        /\ \A i \in 1..Len(events) :
              events[i].kind = "Some" =>
                 /\ events[i].row.len = BytesPerRow(it.width)
                 /\ BytesOf(events[i].row) \subseteq 0..(Len(data) - 1)
                 /\ \A j \in 1..Len(events) :
                       (j # i /\ events[j].kind = "Some") =>
                          BytesOf(events[i].row) \cap BytesOf(events[j].row) = {}
        /\ \A i \in 1..Len(events) : \A j \in i..Len(events) :
              events[i].kind = "None" => events[j].kind = "None"

\* The same statement for widths of 1 or more, where ceil(width/8) >= 1.
RowsExactPositiveWidth ==
    it.width > 0 => C11_RowsFiniteExact

(***************************************************************************)
(* Specification SpecScan: scan_unicode_table applied to mapping tables    *)
(* encoded from records of well-formed aliases.                            *)
(***************************************************************************)
MaxRecords == 3

LetterA == <<65>>
LetterU == <<117>>
LetterE == <<101>>
Euro == <<226, 130, 172>>
Grin == <<240, 159, 152, 128>>

\* Records of one to three aliases: scalars of 1, 2, 3 and 4 bytes, a
\* two-scalar alias, an alias that is a prefix of another, and an alias that
\* two records share.
RecordChoices ==
    { <<LetterA>>, <<EAcute, UE>>, <<Euro>>, <<Grin, EAcute>>, <<UE, Euro, LetterU>> }

InitScan ==
    /\ build \in {b \in Builds : b.usize_bytes = 8 /\ b.overflow_checks}
    /\ tableRecords \in UNION { [1..n -> RecordChoices] : n \in 1..MaxRecords }
    /\ data = EncodeRecords(tableRecords) \o EndOfTable
    /\ hdr = NotRun
    /\ font = NotRun
    /\ cache = Cache_new
    /\ last = NoCall
    /\ prev = NoCall
    /\ keys = Flatten(tableRecords)
    /\ asked = 0
    /\ inserted = <<>>
    /\ itF = NoGlyph /\ itB = NoGlyph
    /\ pixF = <<>> /\ pixB = <<>>
    /\ rowsF = 0 /\ rowsB = 0
    /\ doneF = FALSE /\ doneB = FALSE
    /\ it = NoGlyph /\ events = <<>> /\ lenCall = NotRun

\* self.scan_unicode_table(table, sequence)
Scan(sequence) ==
    /\ last' = [op |-> "scan_unicode_table", text |-> sequence,
                result |-> scan_unicode_table(data, sequence)]
    /\ UNCHANGED <<build, tableRecords, data, hdr, font, cache, prev, keys, asked, inserted,
                   glyphVars>>

NextScan ==
    \E sequence \in {keys[i] : i \in 1..Len(keys)} \cup {LetterE} : Scan(sequence)

SpecScan == InitScan /\ [][NextScan]_vars

\* The aliases of a record.
AliasesOf(record) == {record[i] : i \in 1..Len(record)}

\* The 1-based positions of the records that hold the alias.
RecordsWith(alias) == {k \in 1..Len(tableRecords) : alias \in AliasesOf(tableRecords[k])}

\* The first of them.
FirstRecordWith(alias) ==
    CHOOSE k \in RecordsWith(alias) : \A j \in RecordsWith(alias) : k <= j

\* The number of 0xFF bytes in a byte sequence.
CountEndRec(bytes) == Cardinality({i \in 1..Len(bytes) : bytes[i] = END_REC})

\* C12: for a mapping table made of records (aliases of well-formed UTF-8
\* scalars separated by 0xFE, each record ended by 0xFF, table ended by
\* 0xFF 0xFF) and a query equal to some alias, scan_unicode_table returns the
\* number of 0xFF end-of-record markers that precede the first record holding
\* an alias byte-for-byte equal to the query, i.e. the 0-based position of that
\* record, whether the alias is the first or a later one of its record.
C12_ScanReturnsRecordPosition ==
    (last.op = "scan_unicode_table" /\ RecordsWith(last.text) # {}) =>
        /\ last.result.kind = "Some"
        /\ last.result.idx = FirstRecordWith(last.text) - 1
        /\ last.result.idx
              = CountEndRec(EncodeRecords(SubSeq(tableRecords, 1, FirstRecordWith(last.text) - 1)))

\* The query is a later alias of a record that is not the first one, found
\* after separators of earlier records and of its own record were consumed.
C12_Witness ==
    /\ last.op = "scan_unicode_table"
    /\ RecordsWith(last.text) # {}
    /\ FirstRecordWith(last.text) > 1
    /\ tableRecords[FirstRecordWith(last.text)][1] # last.text
    /\ \E k \in 1..(FirstRecordWith(last.text) - 1) : Len(tableRecords[k]) > 1
    /\ last.result = [kind |-> "Some", idx |-> FirstRecordWith(last.text) - 1]

====
